---- MODULE Spec2Model ----
(***************************************************************************)
(* Model of healthcheck/healthcheck.go: the cycle scheduler of main, the   *)
(* probe goroutines running checkEndpointHealth on the shared Availability *)
(* records, the interval ticker, the signal channel and logAvailability.   *)
(*                                                                         *)
(* checkEndpointHealth updates *Availability without any lock.  Two        *)
(* descriptors with the same Url get the same pointer, so their goroutines *)
(* race on the record.  Every read and every write of a field is therefore *)
(* a step of its own: x++ is a load followed by a store.                   *)
(***************************************************************************)
EXTENDS Integers, Sequences, FiniteSets

(* ---------------- bounds ---------------- *)
MaxCycles == 2
MaxLat == 4
MaxChecks == 40

(* ---------------- configuration ---------------- *)
\* --latency flag (500ms by default), in the latency units of the model
LatencyThreshold == 3

\* the parsed YAML lists the model is run on: two descriptors that share one
\* Url, and two descriptors with different Urls of which the second has a
\* method that http.NewRequest rejects
Configs ==
  { << [Name |-> "a", Url |-> "u1", Method |-> ""],
       [Name |-> "b", Url |-> "u1", Method |-> "POST"] >>,
    << [Name |-> "a", Url |-> "u1", Method |-> ""],
       [Name |-> "c", Url |-> "u2", Method |-> "BAD METHOD"] >> }

\* three descriptors that share one Url; the last two have a method that
\* http.NewRequest rejects
SharedConfig ==
  << [Name |-> "a", Url |-> "u1", Method |-> ""],
     [Name |-> "b", Url |-> "u1", Method |-> "BAD METHOD"],
     [Name |-> "c", Url |-> "u1", Method |-> "BAD METHOD"] >>

ValidMethods == {"GET", "POST"}

Latencies == 1..MaxLat
StatusCodes == {199, 200, 299, 300}

\* Availability{}: the zero value of the struct
ZeroAvailability ==
  [SuccessCount |-> 0, FailureCount |-> 0, TotalLatency |-> 0,
   MinLatency |-> 0, MaxLatency |-> 0]

\* a goroutine that is not running checkEndpointHealth
IdleProbe == [pc |-> "idle", err |-> FALSE, status |-> 0, lat |-> 0, tmp |-> 0]

VARIABLES
  requests,      \* []Configuration returned by parser
  availability,  \* map[string]*Availability, keyed by Url
  pc,            \* position of main
  idx,           \* index of the range loop that spawns the goroutines
  wg,            \* counter of the sync.WaitGroup
  tickerC,       \* number of ticks buffered in ticker.C (capacity 1)
  sigs,          \* number of signals buffered in sigs (capacity 1)
  probe,         \* per descriptor: the goroutine of the current cycle
  cycle,         \* cycles started so far, counted up to MaxCycles
  reports,       \* calls of logAvailability so far, counted up to MaxCycles
  launched,      \* per descriptor: goroutines spawned so far
  returned,      \* per descriptor: goroutines that have returned so far
  okLat,         \* per Url: latencies of the probes classified UP so far
  sigEarly,      \* a signal was delivered while probes were outstanding
  tickDropped,   \* the tick sent last into ticker.C was followed by ticks that
                 \* found it full
  out            \* blocks printed by the call of logAvailability just made

vars == << requests, availability, pc, idx, wg, tickerC, sigs, probe,
           cycle, reports, launched, returned, okLat, sigEarly,
           tickDropped, out >>

mainVars == << pc, idx, wg, cycle, reports, launched >>
chanVars == << tickerC, sigs, sigEarly, tickDropped >>

Running == pc # "exited"

Descs == 1..Len(requests)

\* a ledger made for the Url of the first descriptor only
UrlsOfFirst == {requests[1].Url}

\* lines 210-215: the keys of the ledger, one per distinct Url
Urls == {requests[d].Url : d \in Descs}

(* ---------------- state after construction (lines 199-223) ------------- *)
\* lines 209-223: the ledger, the channels and main before the first cycle
Constructed ==
  /\ availability = [u \in Urls |-> ZeroAvailability]
  /\ pc = "init"
  /\ idx = 0
  /\ wg = 0
  /\ tickerC = 0
  /\ sigs = 0
  /\ probe = [d \in Descs |-> IdleProbe]
  /\ cycle = 0
  /\ reports = 0
  /\ launched = [d \in Descs |-> 0]
  /\ returned = [d \in Descs |-> 0]
  /\ okLat = [u \in Urls |-> {}]
  /\ sigEarly = FALSE
  /\ tickDropped = FALSE
  /\ out = << >>

Init ==
  /\ requests \in Configs
  /\ Constructed

(* ---------------- the environment ---------------- *)
\* a ticker whose channel holds two ticks
TickQueued ==
  /\ Running
  /\ tickerC' = IF tickerC < 2 THEN tickerC + 1 ELSE 2
  /\ tickDropped' = (tickerC >= 1)
  /\ UNCHANGED << requests, availability, probe, returned, okLat, out, sigs, sigEarly >>
  /\ UNCHANGED mainVars

\* lines 222-223: the runtime timer sends on ticker.C without blocking: a tick
\* that finds the one-slot buffer full is dropped
Tick ==
  /\ Running
  /\ tickerC' = 1
  /\ tickDropped' = (tickerC = 1)
  /\ UNCHANGED << requests, availability, probe, returned, okLat, out, sigs, sigEarly >>
  /\ UNCHANGED mainVars

\* signal.Notify delivers SIGINT/SIGTERM without blocking into sigs
Signal ==
  /\ Running
  /\ sigs' = 1
  /\ sigEarly' = (sigEarly \/ wg > 0)
  /\ UNCHANGED << requests, availability, probe, returned, okLat, out, tickerC, tickDropped >>
  /\ UNCHANGED mainVars

(* ---------------- main ---------------- *)
\* the initial cycle made to wait for the first tick, as the later ones do
StartInitialOnTick ==
  /\ pc = "init"
  /\ tickerC = 1
  /\ tickerC' = 0
  /\ pc' = "spawn"
  /\ wg' = wg + Len(requests)
  /\ idx' = 1
  /\ cycle' = cycle + 1
  /\ UNCHANGED << requests, availability, probe, returned, okLat, out, reports, launched, sigs, sigEarly, tickDropped >>

\* lines 226-228: the initial cycle, started without any tick
StartInitial ==
  /\ pc = "init"
  /\ pc' = "spawn"
  /\ wg' = wg + Len(requests)
  /\ idx' = 1
  /\ cycle' = cycle + 1
  /\ UNCHANGED << requests, availability, probe, returned, okLat, out, reports, launched >>
  /\ UNCHANGED chanVars

\* lines 229-234 and 245-250: one iteration of the range loop
Spawn ==
  /\ pc = "spawn"
  /\ idx <= Len(requests)
  /\ probe' = [probe EXCEPT ![idx] = [IdleProbe EXCEPT !.pc = "start"]]
  /\ launched' = [launched EXCEPT ![idx] = @ + 1]
  /\ idx' = idx + 1
  /\ UNCHANGED << requests, availability, returned, okLat, out, pc, wg, cycle, reports >>
  /\ UNCHANGED chanVars

\* the range loop is over
SpawnDone ==
  /\ pc = "spawn"
  /\ idx > Len(requests)
  /\ pc' = "wait"
  /\ UNCHANGED << requests, availability, probe, returned, okLat, out, idx, wg, cycle, reports, launched >>
  /\ UNCHANGED chanVars

\* a barrier that opens one Done too early
WaitReadyEarly(n) == n <= 1

\* line 235, 251: the condition wg.Wait() blocks on
WaitReady(n) == n = 0

\* lines 235 and 251: wg.Wait() returns once the counter is zero
Wait ==
  /\ pc = "wait"
  /\ WaitReady(wg)
  /\ pc' = "report"
  /\ UNCHANGED << requests, availability, probe, returned, okLat, out, idx, wg, cycle, reports, launched >>
  /\ UNCHANGED chanVars

(* ---------------- float64 arithmetic of logAvailability ---------------- *)
\* significand width of a float64
Precision == 53

\* a non-negative float64 value: the bits b of its significand, most
\* significant first and starting with a 1, and the exponent e of b[1]; the
\* value is the sum of b[i] * 2^(e - i + 1); zero has no bits
FloatZero == [b |-> << >>, e |-> 0]

Zeros(n) == [i \in 1..n |-> 0]

\* binary digits of the integer n in 0..2^16, most significant first
IntBits(n) ==
  LET len == IF n = 0 THEN 0 ELSE CHOOSE l \in 1..17 : 2^(l - 1) <= n /\ n < 2^l
  IN [i \in 1..len |-> (n \div 2^(len - i)) % 2]

\* the integer with the binary digits bits
RECURSIVE BitsInt(_)
BitsInt(bits) ==
  IF bits = << >> THEN 0
  ELSE 2 * BitsInt(SubSeq(bits, 1, Len(bits) - 1)) + bits[Len(bits)]

\* bits plus one in the last place; the result is one bit longer on overflow
IncBits(bits) ==
  LET zs == {i \in 1..Len(bits) : bits[i] = 0}
  IN IF zs = {} THEN << 1 >> \o Zeros(Len(bits))
     ELSE LET j == CHOOSE i \in zs : \A k \in zs : k <= i
          IN [i \in 1..Len(bits) |-> IF i < j THEN bits[i] ELSE IF i = j THEN 1 ELSE 0]

\* drop leading zero bits, keeping the position of the last bit
Normalize(v) ==
  LET os == {i \in 1..Len(v.b) : v.b[i] = 1}
  IN IF os = {} THEN FloatZero
     ELSE LET j == CHOOSE i \in os : \A k \in os : i <= k
          IN [b |-> SubSeq(v.b, j, Len(v.b)), e |-> v.e - (j - 1)]

\* round-to-nearest-even of an exact value to Precision bits; sticky tells
\* that the exact value has further non-zero bits below v.b
RoundNearestEven(v, sticky) ==
  IF Len(v.b) <= Precision THEN v
  ELSE LET keep == SubSeq(v.b, 1, Precision)
           guard == v.b[Precision + 1]
           rest == sticky \/ \E i \in (Precision + 2)..Len(v.b) : v.b[i] = 1
           up == guard = 1 /\ (rest \/ keep[Precision] = 1)
           inc == IncBits(keep)
       IN IF ~up THEN [b |-> keep, e |-> v.e]
          ELSE IF Len(inc) > Precision
                 THEN [b |-> SubSeq(inc, 1, Precision), e |-> v.e + 1]
                 ELSE [b |-> inc, e |-> v.e]

\* the arithmetic on long bit strings is done ten bits at a time
LimbBits == 10
LimbBase == 2^LimbBits

\* ten-bit digits of a quotient kept after the binary point before rounding:
\* enough for Precision + 2 significant bits when the divisor is below 2^21
DivLimbs == 8

\* float64(s) / float64(t) for integers s >= 0, t > 0, by long division
FloatDiv(s, t) ==
  LET rem[j \in 0..DivLimbs] == IF j = 0 THEN s % t ELSE (rem[j - 1] * LimbBase) % t
      digit == [j \in 1..DivLimbs |-> (rem[j - 1] * LimbBase) \div t]
      ip == IntBits(s \div t)
      fr == [k \in 1..(DivLimbs * LimbBits) |->
               (digit[(k - 1) \div LimbBits + 1]
                  \div 2^(LimbBits - 1 - ((k - 1) % LimbBits))) % 2]
  IN RoundNearestEven(Normalize([b |-> ip \o fr, e |-> Len(ip) - 1]), rem[DivLimbs] # 0)

\* v * float64(k) for a small integer k > 0
FloatMul(v, k) ==
  IF v.b = << >> THEN FloatZero
  ELSE LET n == Len(v.b)
           top == (n - 1) \div LimbBits
           \* the m-th ten bits of v.b, counted from the last bit
           limb == [m \in 0..top |->
                      BitsInt(SubSeq(v.b,
                                     IF n - LimbBits * m - (LimbBits - 1) < 1
                                       THEN 1 ELSE n - LimbBits * m - (LimbBits - 1),
                                     n - LimbBits * m))]
           \* the carry into the m-th ten bits of the product
           carry[m \in 0..top] ==
             IF m = 0 THEN 0 ELSE (limb[m - 1] * k + carry[m - 1]) \div LimbBase
           low == [i \in 1..n |->
                     LET m == (n - i) \div LimbBits
                     IN ((limb[m] * k + carry[m]) \div 2^((n - i) % LimbBits)) % 2]
           high == IntBits((limb[top] * k + carry[top]) \div 2^(n - LimbBits * top))
           p == high \o low
       IN RoundNearestEven(Normalize([b |-> p, e |-> v.e + (Len(p) - n)]), FALSE)

\* v + 0.5
FloatAddHalf(v) ==
  IF v.b = << >> THEN [b |-> << 1 >>, e |-> -1]
  ELSE LET lo == v.e - Len(v.b) + 1
           hi == IF v.e > -1 THEN v.e ELSE -1
           wide == Zeros(hi - v.e) \o v.b \o Zeros(lo + 1)
           upper == SubSeq(wide, 1, hi + 2)
           lower == SubSeq(wide, hi + 3, Len(wide))
           sum == IncBits(upper)
       IN RoundNearestEven(
            Normalize([b |-> sum \o lower, e |-> hi + (Len(sum) - Len(upper))]), FALSE)

\* int(v): truncation towards zero
FloatToInt(v) ==
  IF v.b = << >> \/ v.e < 0 THEN 0
  ELSE BitsInt(SubSeq(v.b \o Zeros(v.e + 1 - Len(v.b)), 1, v.e + 1))

\* lines 139-140 and 143: int(float64(success)/float64(total)*100 + 0.5)
FloatPercentage(success, total) ==
  FloatToInt(FloatAddHalf(FloatMul(FloatDiv(success, total), 100)))

\* FloatPercentage, computed once for the counts up to MaxChecks: the entry
\* of success out of total is at (total - 1) * (MaxChecks + 1) + success + 1
PercentageTable ==
  [i \in 1..(MaxChecks * (MaxChecks + 1)) |->
     LET total == (i - 1) \div (MaxChecks + 1) + 1
         success == (i - 1) % (MaxChecks + 1)
     IN IF success <= total THEN FloatPercentage(success, total) ELSE 0] \o << >>

Percentage(success, total) ==
  IF total <= MaxChecks /\ success <= total
    THEN PercentageTable[(total - 1) * (MaxChecks + 1) + success + 1]
    ELSE FloatPercentage(success, total)

(* ---------------- logAvailability ---------------- *)
\* one fmt.Printf of the block of a descriptor: which line, and its number
Line(k, v) == [k |-> k, v |-> v]

\* lines 131-157: the lines printed for one descriptor
Block(req, stats) ==
  LET total == stats.SuccessCount + stats.FailureCount
  IN [Name |-> req.Name,
      Url |-> req.Url,
      lines |->
        IF total = 0 THEN << Line("nodata", 0) >>
        ELSE << Line("pct", Percentage(stats.SuccessCount, total)),
                Line("total", total),
                Line("success", stats.SuccessCount),
                Line("failed", stats.FailureCount) >>
             \o (IF stats.SuccessCount > 0
                   THEN << Line("avg", stats.TotalLatency \div stats.SuccessCount) >>
                   ELSE << Line("avg_na", 0) >>)
             \o (IF stats.MinLatency > 0 THEN << Line("min", stats.MinLatency) >> ELSE << >>)
             \o (IF stats.MaxLatency > 0 THEN << Line("max", stats.MaxLatency) >> ELSE << >>)]

\* a report that walks the ledger: one block per record, under the name of
\* the first descriptor that has its Url
logAvailabilityPerRecord(reqs, avail) ==
  LET first == {i \in 1..Len(reqs) : \A j \in 1..(i - 1) : reqs[j].Url # reqs[i].Url}
      nth[k \in 1..Cardinality(first)] ==
        CHOOSE i \in first : Cardinality({j \in first : j < i}) = k - 1
  IN [k \in 1..Cardinality(first) |-> Block(reqs[nth[k]], avail[reqs[nth[k]].Url])]

\* lines 128-160: one block per descriptor, in the order of requests
logAvailability(reqs, avail) ==
  [i \in 1..Len(reqs) |-> Block(reqs[i], avail[reqs[i].Url])]

\* a report that starts the counts afresh once it has printed them
ReportAndReset ==
  /\ pc = "report"
  /\ pc' = "select"
  /\ reports' = reports + 1
  /\ out' = logAvailability(requests, availability)
  /\ availability' = [u \in Urls |-> ZeroAvailability]
  /\ UNCHANGED << requests, probe, returned, okLat, idx, wg, cycle, launched >>
  /\ UNCHANGED chanVars

\* lines 236 and 252: logAvailability reads the ledger and prints
Report ==
  /\ pc = "report"
  /\ pc' = "select"
  /\ reports' = IF reports < MaxCycles THEN reports + 1 ELSE reports
  /\ out' = logAvailability(requests, availability)
  /\ UNCHANGED << requests, availability, probe, returned, okLat, idx, wg, cycle, launched >>
  /\ UNCHANGED chanVars

\* a tick case that is also taken in place of the report
TickCaseAtNoReport(p) == p \in {"select", "report"}

\* line 240: the select is reached only after logAvailability has returned
TickCaseAt(p) == p = "select"

\* lines 241-244: the select takes the tick.  With descriptors the ledger
\* grows with every cycle, so no cycle is started beyond MaxCycles; without
\* descriptors the loop goes on and only the count of the cycles stops there
TickCase ==
  /\ TickCaseAt(pc)
  /\ tickerC >= 1
  /\ cycle < MaxCycles \/ requests = << >>
  /\ tickerC' = tickerC - 1
  /\ out' = << >>
  /\ pc' = "spawn"
  /\ wg' = wg + Len(requests)
  /\ idx' = 1
  /\ cycle' = IF cycle < MaxCycles THEN cycle + 1 ELSE cycle
  /\ UNCHANGED << requests, availability, probe, returned, okLat, reports, launched, sigs, sigEarly, tickDropped >>

\* a signal case raced against the barrier as well
SigCaseAtBarrier(p) == p \in {"select", "wait"}

\* line 240: the signal is received only in the select, never in wg.Wait()
SigCaseAt(p) == p = "select"

\* a loop that also ends when it finds no signal
SigCaseUnconditional ==
  /\ SigCaseAt(pc)
  /\ Running
  /\ sigs' = 0
  /\ pc' = "exited"
  /\ UNCHANGED << requests, availability, probe, returned, okLat, out, idx, wg, cycle, reports, launched, tickerC, sigEarly, tickDropped >>

\* lines 253-255: the select takes the signal; os.Exit(0) ends every goroutine
SigCase ==
  /\ SigCaseAt(pc)
  /\ Running
  /\ sigs = 1
  /\ sigs' = 0
  /\ pc' = "exited"
  /\ UNCHANGED << requests, availability, probe, returned, okLat, out, idx, wg, cycle, reports, launched, tickerC, sigEarly, tickDropped >>

(* ---------------- checkEndpointHealth, one goroutine per descriptor ----- *)
Rec(d) == requests[d].Url

SetProbe(d, p) == probe' = [probe EXCEPT ![d] = p]
SetField(d, r) == availability' = [availability EXCEPT ![Rec(d)] = r]

probeFrame == << requests, returned, out, tickerC, sigs, sigEarly, tickDropped, pc, idx, wg, cycle, reports, launched >>

\* lines 71-74: the method defaults to GET
MethodOf(req) == IF req.Method = "" THEN "GET" ELSE req.Method

\* line 77: http.NewRequest returns an error for a method that is no token
NewRequestFails(req) == MethodOf(req) \notin ValidMethods

\* a construction error that ends the process, as log.Fatalf would
NewRequestFatal(d) ==
  /\ Running
  /\ probe[d].pc = "start"
  /\ IF NewRequestFails(requests[d])
       THEN /\ pc' = "exited"
            /\ SetProbe(d, IdleProbe)
       ELSE /\ pc' = pc
            /\ SetProbe(d, [probe[d] EXCEPT !.pc = "do"])
  /\ UNCHANGED << availability, okLat >>
  /\ UNCHANGED << requests, returned, out, tickerC, sigs, sigEarly, tickDropped, idx, wg, cycle, reports, launched >>

\* lines 71-82
NewRequest(d) ==
  /\ Running
  /\ probe[d].pc = "start"
  /\ SetProbe(d, [probe[d] EXCEPT !.pc = IF NewRequestFails(requests[d]) THEN "f_load" ELSE "do"])
  /\ UNCHANGED << availability, okLat >>
  /\ UNCHANGED probeFrame

\* lines 95-97: client.Do returns a transport error, or a response with a
\* status code, after the measured latency
Do(d) ==
  /\ Running
  /\ probe[d].pc = "do"
  /\ \/ SetProbe(d, [probe[d] EXCEPT !.pc = "classify", !.err = TRUE])
     \/ \E s \in StatusCodes, l \in Latencies :
          SetProbe(d, [probe[d] EXCEPT !.pc = "classify", !.status = s, !.lat = l])
  /\ UNCHANGED << availability, okLat >>
  /\ UNCHANGED probeFrame

\* the classification with the threshold itself still counted as UP
IsUpInclusive(err, status, lat) ==
  /\ ~err
  /\ status >= 200
  /\ status < 300
  /\ lat <= LatencyThreshold

\* lines 99 and 108: the probe is UP
IsUp(err, status, lat) ==
  /\ ~err
  /\ status >= 200
  /\ status < 300
  /\ lat < LatencyThreshold

\* lines 99-108 and 121-122: choose the branch
Classify(d) ==
  /\ Running
  /\ probe[d].pc = "classify"
  /\ IF IsUp(probe[d].err, probe[d].status, probe[d].lat)
       THEN /\ SetProbe(d, [IdleProbe EXCEPT !.pc = "s_load", !.lat = probe[d].lat])
            /\ okLat' = [okLat EXCEPT ![Rec(d)] = @ \cup {probe[d].lat}]
       ELSE /\ SetProbe(d, [IdleProbe EXCEPT !.pc = "f_load"])
            /\ UNCHANGED okLat
  /\ UNCHANGED availability
  /\ UNCHANGED probeFrame

\* lines 80, 102, 123: avail.FailureCount++, the load
FLoad(d) ==
  /\ Running
  /\ probe[d].pc = "f_load"
  /\ SetProbe(d, [probe[d] EXCEPT !.pc = "f_store", !.tmp = availability[Rec(d)].FailureCount])
  /\ UNCHANGED << availability, okLat >>
  /\ UNCHANGED probeFrame

\* a DOWN probe that also leaves the threshold behind as the maximum latency
FStoreWithLatency(d) ==
  /\ Running
  /\ probe[d].pc = "f_store"
  /\ SetField(d, [availability[Rec(d)] EXCEPT !.FailureCount = probe[d].tmp + 1,
                                              !.MaxLatency = LatencyThreshold])
  /\ SetProbe(d, [IdleProbe EXCEPT !.pc = "ret"])
  /\ UNCHANGED okLat
  /\ UNCHANGED probeFrame

\* lines 80, 102, 123: avail.FailureCount++, the store
FStore(d) ==
  /\ Running
  /\ probe[d].pc = "f_store"
  /\ SetField(d, [availability[Rec(d)] EXCEPT !.FailureCount = probe[d].tmp + 1])
  /\ SetProbe(d, [IdleProbe EXCEPT !.pc = "ret"])
  /\ UNCHANGED okLat
  /\ UNCHANGED probeFrame

\* line 110: avail.SuccessCount++, the load
SLoad(d) ==
  /\ Running
  /\ probe[d].pc = "s_load"
  /\ SetProbe(d, [probe[d] EXCEPT !.pc = "s_store", !.tmp = availability[Rec(d)].SuccessCount])
  /\ UNCHANGED << availability, okLat >>
  /\ UNCHANGED probeFrame

\* line 110: avail.SuccessCount++, the store
SStore(d) ==
  /\ Running
  /\ probe[d].pc = "s_store"
  /\ SetField(d, [availability[Rec(d)] EXCEPT !.SuccessCount = probe[d].tmp + 1])
  /\ SetProbe(d, [probe[d] EXCEPT !.pc = "t_load", !.tmp = 0])
  /\ UNCHANGED okLat
  /\ UNCHANGED probeFrame

\* line 111: avail.TotalLatency += latency, the load
TLoad(d) ==
  /\ Running
  /\ probe[d].pc = "t_load"
  /\ SetProbe(d, [probe[d] EXCEPT !.pc = "t_store", !.tmp = availability[Rec(d)].TotalLatency])
  /\ UNCHANGED << availability, okLat >>
  /\ UNCHANGED probeFrame

\* line 111: avail.TotalLatency += latency, the store
TStore(d) ==
  /\ Running
  /\ probe[d].pc = "t_store"
  /\ SetField(d, [availability[Rec(d)] EXCEPT !.TotalLatency = probe[d].tmp + probe[d].lat])
  /\ SetProbe(d, [probe[d] EXCEPT !.pc = "min_check", !.tmp = 0])
  /\ UNCHANGED okLat
  /\ UNCHANGED probeFrame

\* line 114: the condition, read from the record
MinCheck(d) ==
  /\ Running
  /\ probe[d].pc = "min_check"
  /\ SetProbe(d, [probe[d] EXCEPT !.pc =
        IF availability[Rec(d)].MinLatency = 0 \/ probe[d].lat < availability[Rec(d)].MinLatency
          THEN "min_store" ELSE "max_check"])
  /\ UNCHANGED << availability, okLat >>
  /\ UNCHANGED probeFrame

\* line 115: avail.MinLatency = latency
MinStore(d) ==
  /\ Running
  /\ probe[d].pc = "min_store"
  /\ SetField(d, [availability[Rec(d)] EXCEPT !.MinLatency = probe[d].lat])
  /\ SetProbe(d, [probe[d] EXCEPT !.pc = "max_check"])
  /\ UNCHANGED okLat
  /\ UNCHANGED probeFrame

\* line 118: the condition, read from the record
MaxCheck(d) ==
  /\ Running
  /\ probe[d].pc = "max_check"
  /\ SetProbe(d, IF probe[d].lat > availability[Rec(d)].MaxLatency
                   THEN [probe[d] EXCEPT !.pc = "max_store"]
                   ELSE [IdleProbe EXCEPT !.pc = "ret"])
  /\ UNCHANGED << availability, okLat >>
  /\ UNCHANGED probeFrame

\* line 119: avail.MaxLatency = latency
MaxStore(d) ==
  /\ Running
  /\ probe[d].pc = "max_store"
  /\ SetField(d, [availability[Rec(d)] EXCEPT !.MaxLatency = probe[d].lat])
  /\ SetProbe(d, [IdleProbe EXCEPT !.pc = "ret"])
  /\ UNCHANGED okLat
  /\ UNCHANGED probeFrame

\* lines 231 and 247: checkEndpointHealth has returned, the deferred wg.Done()
Return(d) ==
  /\ Running
  /\ probe[d].pc = "ret"
  /\ SetProbe(d, IdleProbe)
  /\ wg' = wg - 1
  /\ returned' = [returned EXCEPT ![d] = @ + 1]
  /\ UNCHANGED << requests, availability, okLat, out, tickerC, sigs, sigEarly, tickDropped, pc, idx, cycle, reports, launched >>

Next ==
  \/ Tick
  \/ Signal
  \/ StartInitial
  \/ Spawn
  \/ SpawnDone
  \/ Wait
  \/ Report
  \/ TickCase
  \/ SigCase
  \/ \E d \in Descs : NewRequest(d)
  \/ \E d \in Descs : Do(d)
  \/ \E d \in Descs : Classify(d)
  \/ \E d \in Descs : FLoad(d)
  \/ \E d \in Descs : FStore(d)
  \/ \E d \in Descs : SLoad(d)
  \/ \E d \in Descs : SStore(d)
  \/ \E d \in Descs : TLoad(d)
  \/ \E d \in Descs : TStore(d)
  \/ \E d \in Descs : MinCheck(d)
  \/ \E d \in Descs : MinStore(d)
  \/ \E d \in Descs : MaxCheck(d)
  \/ \E d \in Descs : MaxStore(d)
  \/ \E d \in Descs : Return(d)

Spec == Init /\ [][Next]_vars

\* the program started on SharedConfig
InitShared ==
  /\ requests = SharedConfig
  /\ Constructed

SpecShared == InitShared /\ [][Next]_vars

\* a step of one of the goroutines that run checkEndpointHealth
ProbeStep ==
  \E d \in Descs :
    \/ NewRequest(d) \/ Do(d) \/ Classify(d)
    \/ FLoad(d) \/ FStore(d) \/ SLoad(d) \/ SStore(d)
    \/ TLoad(d) \/ TStore(d)
    \/ MinCheck(d) \/ MinStore(d) \/ MaxCheck(d) \/ MaxStore(d)
    \/ Return(d)

\* the steps of the program itself: main and its goroutines, without the
\* timer and the signal of the environment
ProgramStep ==
  \/ StartInitial
  \/ Spawn
  \/ SpawnDone
  \/ Wait
  \/ Report
  \/ TickCase
  \/ SigCase
  \/ ProbeStep

\* the steps of the program that need no signal
StepWithoutSignal ==
  \/ StartInitial
  \/ Spawn
  \/ SpawnDone
  \/ Wait
  \/ Report
  \/ TickCase
  \/ ProbeStep

\* the Go scheduler keeps running main and the goroutines while one of them
\* can take a step; client.Do returns within the client timeout
Fairness == WF_vars(ProgramStep)

\* the program started on a configuration with a descriptor whose request
\* cannot be constructed
InitFair ==
  /\ requests \in {c \in Configs : \E d \in DOMAIN c : NewRequestFails(c[d])}
  /\ Constructed

SpecFair == InitFair /\ [][Next]_vars /\ Fairness

\* main about to report, after success + failure cycles on one descriptor of
\* which the UP probes all took one unit of latency
AtReport(success, failure) ==
  /\ requests = << [Name |-> "a", Url |-> "u1", Method |-> ""] >>
  /\ availability =
       [u \in Urls |->
          [SuccessCount |-> success, FailureCount |-> failure,
           TotalLatency |-> success,
           MinLatency |-> IF success > 0 THEN 1 ELSE 0,
           MaxLatency |-> IF success > 0 THEN 1 ELSE 0]]
  /\ pc = "report"
  /\ idx = 2
  /\ wg = 0
  /\ tickerC = 0
  /\ sigs = 0
  /\ probe = [d \in Descs |-> IdleProbe]
  /\ cycle = success + failure
  /\ reports = success + failure - 1
  /\ launched = [d \in Descs |-> success + failure]
  /\ returned = [d \in Descs |-> success + failure]
  /\ okLat = [u \in Urls |-> IF success > 0 THEN {1} ELSE {}]
  /\ sigEarly = FALSE
  /\ tickDropped = FALSE
  /\ out = << >>

\* the report of every ledger of up to MaxChecks probes
InitReport ==
  \E success, failure \in 0..MaxChecks :
    /\ success + failure \in 1..MaxChecks
    /\ AtReport(success, failure)

SpecReport == InitReport /\ [][Report]_vars

\* the program started on an empty list of descriptors, for which the loop
\* of main goes on beyond MaxCycles, or as in InitFair
InitLoop ==
  \/ requests = << >> /\ Constructed
  \/ InitFair

\* weak fairness of every step of the scheduler loop, and every probe
\* terminates
FairnessLoop ==
  /\ WF_vars(StartInitial)
  /\ WF_vars(Spawn)
  /\ WF_vars(SpawnDone)
  /\ WF_vars(Wait)
  /\ WF_vars(Report)
  /\ WF_vars(TickCase)
  /\ WF_vars(SigCase)
  /\ WF_vars(ProbeStep)

SpecLoop == InitLoop /\ [][Next]_vars /\ FairnessLoop

(* ---------------- properties ---------------- *)
RECURSIVE SumReturned(_)
SumReturned(S) ==
  IF S = {} THEN 0
  ELSE LET d == CHOOSE x \in S : TRUE
       IN returned[d] + SumReturned(S \ {d})

\* probes that have completed for Url u since start
Completed(u) == SumReturned({d \in Descs : Rec(d) = u})

\* no goroutine of any cycle is running
Quiescent == \A d \in Descs : probe[d].pc = "idle"

UpPcs == {"s_load", "s_store", "t_load", "t_store",
          "min_check", "min_store", "max_check", "max_store"}

\* C1: whenever no probe is in flight, SuccessCount + FailureCount of every
\* record equals the number of probes completed for its Url.
C1_CountsEqualCompleted ==
  Quiescent =>
    \A u \in Urls :
      availability[u].SuccessCount + availability[u].FailureCount = Completed(u)

\* C2: every cycle launches exactly one probe per descriptor, and
\* logAvailability is called only when every probe of the cycle has returned.
C2_ReportAfterAllProbes ==
  /\ pc \in {"wait", "report", "select"} =>
       \A d \in Descs : launched[d] = cycle
  /\ pc = "report" =>
       \A d \in Descs : probe[d].pc = "idle" /\ returned[d] = cycle

C2_Witness ==
  /\ pc = "report"
  /\ cycle = 2
  /\ \A d \in Descs : returned[d] = 2

\* C3: a cycle starts only when no probe is outstanding and the report of
\* the cycle before has been emitted; each cycle is reported exactly once, and
\* main is back at the select only with that report made.
C3_NoOverlap ==
  [][ /\ cycle' # cycle =>
           /\ \A d \in Descs : probe[d].pc = "idle"
           /\ wg = 0
           /\ reports = cycle
      /\ reports' # reports =>
           /\ reports' = reports + 1
           /\ reports' = cycle
           /\ pc = "report"
      /\ (pc' = "select" /\ pc # "select") => reports' = cycle
    ]_vars

C3_Witness ==
  /\ cycle = 2
  /\ reports = 1
  /\ \E d \in Descs : probe[d].pc = "start"

\* C4: at every report point (no probe running), a record with a success has
\* MinLatency <= MaxLatency.
C4_MinLeMax ==
  Quiescent =>
    \A u \in Urls :
      availability[u].SuccessCount > 0 =>
        availability[u].MinLatency <= availability[u].MaxLatency

C6_DownOnlyFailureCount ==
  [][ \A d \in Descs :
        /\ (probe[d].pc = "f_store" /\ probe'[d].pc = "ret") =>
             availability' = [availability EXCEPT ![Rec(d)].FailureCount = @ + 1]
        /\ (probe[d].pc \in UpPcs /\ probe'[d] # probe[d]) =>
             \A u \in Urls : availability'[u].FailureCount = availability[u].FailureCount
    ]_vars

\* C7: with a signal buffered, the step main takes from the select is the
\* exit, whether or not a tick is buffered too.
C7_ExitAfterSignal ==
  [][ (pc = "select" /\ sigs = 1 /\ pc' # pc) => pc' = "exited" ]_vars

C9_InitialThenTicks ==
  [][ /\ (cycle = 0 /\ cycle' # cycle) =>
           /\ pc = "init"
           /\ cycle' = 1
           /\ tickerC' = tickerC
      /\ (cycle >= 1 /\ cycle' # cycle) =>
           /\ cycle' = cycle + 1
           /\ tickerC = 1
           /\ tickerC' = 0
           /\ reports = cycle
      /\ (reports = 0 /\ reports' = 1) =>
           \A d \in Descs : returned[d] = 1
    ]_vars

C9_Witness ==
  /\ cycle = 2
  /\ pc = "select"
  /\ reports = 2

\* C10: at every report point, MinLatency <= L <= MaxLatency for every
\* latency L of a probe of that Url classified UP so far.
C10_MinMaxBracket ==
  Quiescent =>
    \A u \in Urls :
      \A l \in okLat[u] :
        availability[u].MinLatency <= l /\ l <= availability[u].MaxLatency

\* C11: SuccessCount + FailureCount of a record never decreases from one
\* state to the next.
C11_TotalNeverDecreases ==
  [][ \A u \in Urls :
        availability'[u].SuccessCount + availability'[u].FailureCount
          >= availability[u].SuccessCount + availability[u].FailureCount
    ]_vars

\* positions of a probe before and after its write of a counter
BeforeCount == {"start", "do", "classify", "f_load", "s_load", "f_store", "s_store"}
AfterCount == (UpPcs \ {"s_load", "s_store"}) \cup {"ret"}

\* C12: a probe, whatever its outcome, leaves main alone, writes exactly one
\* of the two counters of its own record on its way from launch to return,
\* returns only after that write and takes the barrier down by one exactly
\* once; every started cycle reaches its report and main comes back to the
\* select.
C12_ProbeAlwaysReturns ==
  /\ [][ \A d \in Descs :
           /\ (probe'[d] # probe[d] /\ probe[d].pc # "idle") => pc' = pc
           /\ (probe[d].pc \in BeforeCount /\ probe'[d].pc \notin BeforeCount) =>
                /\ probe[d].pc \in {"f_store", "s_store"}
                /\ probe'[d].pc \in AfterCount
                /\ probe[d].pc = "f_store" =>
                     /\ availability'[Rec(d)].FailureCount = probe[d].tmp + 1
                     /\ availability'[Rec(d)].SuccessCount = availability[Rec(d)].SuccessCount
                /\ probe[d].pc = "s_store" =>
                     /\ availability'[Rec(d)].SuccessCount = probe[d].tmp + 1
                     /\ availability'[Rec(d)].FailureCount = availability[Rec(d)].FailureCount
           /\ (probe[d].pc \in AfterCount /\ probe'[d] # probe[d]) =>
                /\ probe'[d].pc \in AfterCount \cup {"idle"}
                /\ availability'[Rec(d)].SuccessCount = availability[Rec(d)].SuccessCount
                /\ availability'[Rec(d)].FailureCount = availability[Rec(d)].FailureCount
           /\ (probe[d].pc # "idle" /\ probe'[d].pc = "idle") =>
                /\ probe[d].pc = "ret"
                /\ wg' = wg - 1
                /\ returned'[d] = returned[d] + 1
           /\ returned'[d] <= launched'[d]
       ]_vars
  /\ (pc = "spawn") ~> (pc = "select")

C12_Witness ==
  /\ pc = "select"
  /\ cycle = 2
  /\ \E d \in Descs :
       /\ NewRequestFails(requests[d])
       /\ returned[d] = 2
       /\ availability[Rec(d)].FailureCount = 2

\* C13: the step that runs logAvailability leaves every record as it was, and
\* logAvailability run again in the state it leaves behind renders, for every
\* descriptor, the block it has just printed.
C13_ReportReadOnlyIdempotent ==
  [][ reports' # reports =>
        /\ availability' = availability
        /\ Len(out') = Len(requests)
        /\ \A i \in 1..Len(requests) :
             out'[i] = logAvailability(requests', availability')[i]
    ]_vars

C13_Witness ==
  /\ pc = "select"
  /\ reports = 2
  /\ \E i \in 1..Len(out) :
       \E j \in 1..Len(out[i].lines) :
         out[i].lines[j].k = "avg" /\ out[i].lines[j].v > 1

\* the number printed on line k of a block, -1 when the block has no line k
Val(block, k) ==
  IF \E j \in 1..Len(block.lines) : block.lines[j].k = k
    THEN block.lines[CHOOSE j \in 1..Len(block.lines) : block.lines[j].k = k].v
    ELSE -1

C15_PercentageHalfUp ==
  (pc = "select" /\ out # << >>) =>
    \A i \in 1..Len(out) :
      LET stats == availability[out[i].Url]
          total == stats.SuccessCount + stats.FailureCount
      IN IF total > 0
           THEN /\ Val(out[i], "pct") = (200 * stats.SuccessCount + total) \div (2 * total)
                /\ Val(out[i], "pct") \in 0..100
                /\ Val(out[i], "nodata") = -1
           ELSE /\ Val(out[i], "nodata") = 0
                /\ Val(out[i], "pct") = -1

\* positions from which a probe writes a field of its record
StorePcs == {"f_store", "s_store", "t_store", "min_store", "max_store"}

C17_TicksNotQueued ==
  /\ tickerC \in {0, 1}
  /\ [][ /\ tickerC' \in {0, 1}
         /\ tickerC' < tickerC =>
              /\ cycle' = cycle + 1
              /\ pc = "select" /\ pc' = "spawn"
              /\ wg = 0
              /\ tickDropped => tickerC' = 0
         /\ (cycle >= 1 /\ cycle' # cycle) => tickerC' = tickerC - 1
     ]_vars

C17_Witness ==
  /\ cycle = 2
  /\ tickDropped
  /\ tickerC = 0
  /\ pc = "select"
  /\ reports = 2

\* C18: in every state a record with SuccessCount = 0 has MinLatency = 0 and
\* MaxLatency = 0, and the block a report prints for such a record shows the
\* average as N/A and has no minimum and no maximum line.
C18_UnsetUntilFirstSuccess ==
  /\ \A u \in Urls :
       availability[u].SuccessCount = 0 =>
         availability[u].MinLatency = 0 /\ availability[u].MaxLatency = 0
  /\ (pc = "select" /\ out # << >>) =>
       \A i \in 1..Len(out) :
         availability[out[i].Url].SuccessCount = 0 =>
           /\ Val(out[i], "avg") = -1
           /\ Val(out[i], "min") = -1
           /\ Val(out[i], "max") = -1
           /\ Val(out[i], "nodata") = -1 => Val(out[i], "avg_na") = 0

C18_Witness ==
  /\ pc = "select"
  /\ \E i \in 1..Len(out) :
       /\ availability[out[i].Url].SuccessCount = 0
       /\ availability[out[i].Url].FailureCount = 2
       /\ Val(out[i], "avg_na") = 0
       /\ Val(out[i], "failed") = 2

\* C19: main stops only in a step that takes a signal out of sigs, after the
\* first cycle has started; as long as it has not stopped, whatever the probes
\* have returned, either a step that needs no signal can be taken, or main is
\* at the select with every probe returned and waits for the next tick (a
\* tick that is there is taken while cycle < MaxCycles).
C19_StopOnlyOnSignal ==
  /\ [][ (pc' = "exited" /\ pc # "exited") =>
           /\ sigs = 1
           /\ sigs' = 0
           /\ cycle >= 1
     ]_vars
  /\ [](Running =>
         \/ ENABLED StepWithoutSignal
         \/ /\ pc = "select"
            /\ Quiescent
            /\ wg = 0
            /\ reports = cycle
            /\ tickerC = 0 \/ cycle = MaxCycles)

C19_Witness ==
  /\ pc = "exited"
  /\ sigs = 0
  /\ cycle = 2
  /\ reports = 2
  /\ tickerC = 1

====
